---- MODULE Spec2Model ----
(***************************************************************************)
(* Model of the Minesweeper knowledge base of src/minesweeper.py:          *)
(* class Sentence (a set of cells and a count), class MinesweeperAI        *)
(* (moves_made, mines, safes, knowledge) and the board that produces the   *)
(* observations (class Minesweeper).                                       *)
(*                                                                         *)
(* add_knowledge is modelled step by step (one step per call of            *)
(* MinesweeperAI.mark_safe / mark_mine), because it mutates the sentences  *)
(* in place while it iterates over them.  The iteration order of a Python  *)
(* set is not fixed by the language, so every "for cell in <set>" is a     *)
(* nondeterministic choice of the order.  The order in which lines 276-277 *)
(* read index_set decides the order of the list add_knowledge leaves       *)
(* behind; nothing reads that order before the next call of add_knowledge, *)
(* so the choice is drawn there (Observe), and between calls `knowledge`   *)
(* holds the sentences kept by lines 266-279 in the order of their indices.*)
(*                                                                         *)
(* Specifications: Spec (the caller reports what a board shows), SpecAny   *)
(* (any in-bounds cell and any count the cell can have), SpecSentence (the *)
(* methods of one Sentence), SpecPool (each call of add_knowledge is run   *)
(* twice on the same knowledge base) and SpecPerm (two knowledge bases     *)
(* record the same observations in two orders).                            *)
(***************************************************************************)
EXTENDS Integers, FiniteSets, Sequences

\* Largest number of cells of a grid (MinesweeperAI.__init__ takes any height
\* and width): the grids are 1x1 .. 1x4, 2x1, 2x2, 3x1, 4x1.
MaxCells == 4
\* Number of add_knowledge calls in one behaviour: of a caller that reports
\* what the board shows, and of a caller that passes any cell and count.
MaxObs == 3
MaxAnyObs == 2

VARIABLES
    height, width,  \* MinesweeperAI.height, .width
    board,          \* Minesweeper.mines: the cells that hold a mine
    anyInput,       \* FALSE: the caller passes only what the board reports
    seen,           \* the (cell, count) pairs add_knowledge was called with
    moves_made,     \* MinesweeperAI.moves_made
    mines,          \* MinesweeperAI.mines
    safes,          \* MinesweeperAI.safes
    knowledge,      \* MinesweeperAI.knowledge: sequence of sentences
    pc,             \* position inside add_knowledge, "idle" between calls
    move, count,    \* add_knowledge: the arguments of the running call
    order,          \* add_knowledge: iteration order of neighbor_cells
    idx,            \* add_knowledge: position in the loop over neighbor_cells
    n,              \* add_knowledge: local n (lines 220-228)
    new_knowledge,  \* add_knowledge: local new_knowledge
    pos,            \* add_knowledge: position (sen, sentence) of the nested loops
    todo, kind,     \* add_knowledge: cells of new_set still to mark, and how
    pool0,          \* the knowledge as it was when the nested loops started
    nobs,           \* number of add_knowledge calls so far
    op, ret,        \* last call of a method that returns, and what it returned
    snap,           \* a knowledge base kept to run add_knowledge on it again
    first           \* what the first of two runs that are compared ended with

vars == <<height, width, board, anyInput, seen, moves_made, mines, safes,
          knowledge, pc, move, count, order, idx, n, new_knowledge, pos,
          todo, kind, pool0, nobs, op, ret, snap, first>>

kb == <<moves_made, mines, safes, knowledge>>
locals == <<move, count, order, idx, n, new_knowledge, pos, todo, kind, pool0>>
env == <<height, width, board, anyInput>>
twin == <<snap, first>>

\* Python's None
None == <<>>

----------------------------------------------------------------------------
\* The grid

AllCells(h, w) == {<<r, c>> : r \in 0..(h - 1), c \in 0..(w - 1)}

Cells == AllCells(height, width)

\* lines 209-216 without "if (i, j) == move: continue"
NeighborCells_WithCell(cell) ==
    {<<r, c>> : r \in (cell[1] - 1)..(cell[1] + 1), c \in (cell[2] - 1)..(cell[2] + 1)}
        \cap Cells

\* add_knowledge, lines 209-216: the in-bounds cells around `cell`
NeighborCells(cell) ==
    {<<r, c>> : r \in (cell[1] - 1)..(cell[1] + 1), c \in (cell[2] - 1)..(cell[2] + 1)}
        \cap (Cells \ {cell})

\* Minesweeper.nearby_mines
nearby_mines(cell) ==
    Cardinality({<<r, c>> \in Cells :
                    /\ <<r, c>> # cell
                    /\ r \in (cell[1] - 1)..(cell[1] + 1)
                    /\ c \in (cell[2] - 1)..(cell[2] + 1)
                    /\ <<r, c>> \in board})

\* Minesweeper.is_mine
is_mine(cell) == cell \in board

----------------------------------------------------------------------------
\* class Sentence

Sentence(cells, cnt) == [cells |-> cells, count |-> cnt]

\* Sentence.__eq__
SentenceEq(a, b) == a.cells = b.cells /\ a.count = b.count

\* Sentence.known_mines
known_mines(s) == s.cells

\* Sentence.known_safes
known_safes(s) == s.cells

\* Sentence.mark_mine without the branch of lines 127-128 for a sentence of
\* one cell: the cell is removed from every sentence that holds it
SentenceMarkMine_NoUnit(s, cell) ==
    IF cell \in s.cells
    THEN [cells |-> s.cells \ {cell}, count |-> s.count - 1]
    ELSE s

\* Sentence.mark_mine that forgets line 130: the count is not lowered
SentenceMarkMine_NoDecrement(s, cell) ==
    IF s.cells = {cell} THEN [s EXCEPT !.count = 1]
    ELSE IF cell \in s.cells
         THEN [s EXCEPT !.cells = s.cells \ {cell}]
         ELSE s

\* Sentence.mark_mine
SentenceMarkMine(s, cell) ==
    IF s.cells = {cell} THEN [s EXCEPT !.count = 1]
    ELSE IF cell \in s.cells
         THEN [cells |-> s.cells \ {cell}, count |-> s.count - 1]
         ELSE s

\* Sentence.mark_safe that removes the cell also from a sentence of one cell
SentenceMarkSafe_NoUnit(s, cell) ==
    IF cell \in s.cells
    THEN [s EXCEPT !.cells = s.cells \ {cell}]
    ELSE s

\* Sentence.mark_safe that lowers the count as mark_mine does
SentenceMarkSafe_Decrement(s, cell) ==
    IF s.cells = {cell} THEN [s EXCEPT !.count = 0]
    ELSE IF cell \in s.cells
         THEN [cells |-> s.cells \ {cell}, count |-> s.count - 1]
         ELSE s

\* Sentence.mark_safe
SentenceMarkSafe(s, cell) ==
    IF s.cells = {cell} THEN [s EXCEPT !.count = 0]
    ELSE IF cell \in s.cells
         THEN [s EXCEPT !.cells = s.cells \ {cell}]
         ELSE s

----------------------------------------------------------------------------
\* class MinesweeperAI: mark_mine and mark_safe

\* MinesweeperAI.mark_mine: the set of known mines after the call
MinesAfterMark(ms, cell) == ms \cup {cell}

\* MinesweeperAI.mark_safe that assigns the set instead of adding to it
SafesAfterMark_Replace(ss, cell) == {cell}

\* MinesweeperAI.mark_safe: the set of known safes after the call
SafesAfterMark(ss, cell) == ss \cup {cell}

\* MinesweeperAI.mark_mine: every sentence of the knowledge is told
KnowledgeMarkMine(k, cell) == [x \in 1..Len(k) |-> SentenceMarkMine(k[x], cell)]

\* MinesweeperAI.mark_safe: every sentence of the knowledge is told
KnowledgeMarkSafe(k, cell) == [x \in 1..Len(k) |-> SentenceMarkSafe(k[x], cell)]

\* All iteration orders of a set
RECURSIVE Orders(_)
Orders(S) ==
    IF S = {} THEN {<<>>}
    ELSE UNION {{<<x>> \o p : p \in Orders(S \ {x})} : x \in S}

----------------------------------------------------------------------------
\* add_knowledge

\* lines 221-228 with the count compared to 8, the neighbours of an interior
\* cell, instead of len(neighbor_cells)
DirectKind_Eight(cnt, nbrs) ==
    IF cnt = 0 THEN "safe"
    ELSE IF cnt = 8 THEN "mine"
    ELSE "none"

\* lines 221-228: what the count of the new observation says about all its
\* neighbours
DirectKind(cnt, nbrs) ==
    IF cnt = 0 THEN "safe"
    ELSE IF cnt = Cardinality(nbrs) THEN "mine"
    ELSE "none"

\* lines 239-240: the nested loops visit the pairs (sen, sentence) in list
\* order; position p stands for sen = k[SenIndex], sentence = k[SentenceIndex]
SenIndex(k, p) == ((p - 1) \div Len(k)) + 1
SentenceIndex(k, p) == ((p - 1) % Len(k)) + 1

\* lines 241-243: the pair at position p yields a new sentence
Infers(k, p) ==
    LET sen == k[SenIndex(k, p)]
        sentence == k[SentenceIndex(k, p)]
    IN  /\ ~SentenceEq(sen, sentence)
        /\ sen.cells \subseteq sentence.cells
        /\ sen.cells # sentence.cells

\* lines 244-246 without the subtraction of sen.count
Difference_KeepCount(sen, sentence) ==
    Sentence(sentence.cells \ sen.cells, sentence.count)

\* lines 244-246: the sentence inferred from sen < sentence
Difference(sen, sentence) ==
    Sentence(sentence.cells \ sen.cells, sentence.count - sen.count)

\* lines 248-253: what the inferred sentence says about all its cells
InferredKind(s) ==
    IF s.count = 0 THEN "safe"
    ELSE IF s.count = Cardinality(s.cells) THEN "mine"
    ELSE "none"

\* lines 249, 252: "for cell in new_set" that visits a cell again and again
Rest_Keep(S, cell) == S

\* lines 249, 252: the cells "for cell in new_set" has still to visit, after
\* it visited cell
Rest(S, cell) == S \ {cell}

\* the loops go on from position p: the next position that infers, 0 if none
NextInference(k, p) ==
    LET last == Len(k) * Len(k)
        hits == {q \in p..last : Infers(k, q)}
    IN  IF hits = {} THEN 0
        ELSE CHOOSE q \in hits : \A q2 \in hits : q <= q2

\* lines 266-277 with "sentence == self.knowledge[i]" for line 271: the
\* sentences are grouped by cell set and count
FirstIndices_BySentence(k) ==
    {x \in 1..Len(k) : \A y \in 1..(x - 1) : ~SentenceEq(k[y], k[x])}

\* lines 266-277: for each cell set of the knowledge, the first index that
\* holds it (index[0] of the tuple of all the indices that hold it)
FirstIndices(k) ==
    {x \in 1..Len(k) : \A y \in 1..(x - 1) : k[y].cells # k[x].cells}

\* lines 276-277: knowledge_reduced, for one iteration order o of index_set
Reduced(k, o) == [x \in 1..Len(o) |-> k[o[x]]]

\* the indices of S in ascending order
Ascending(S) ==
    [x \in 1..Cardinality(S) |->
        CHOOSE e \in S : Cardinality({y \in S : y < e}) = x - 1]

\* lines 199-205: the unit sentence of the move is appended to list k and
\* the move is marked safe
WithMove(k, cell) == KnowledgeMarkSafe(Append(k, Sentence({cell}, 0)), cell)

\* the number of add_knowledge calls of a behaviour
CallLimit == IF anyInput THEN MaxAnyObs ELSE MaxObs

\* lines 199-217: the move is recorded and marked safe, the sentence of the
\* observation is appended.  The list the call finds is the one the call
\* before left, in the order o that lines 276-277 gave it.
Observe(cell, cnt) ==
    /\ pc = "idle"
    /\ nobs < CallLimit
    /\ cell \in Cells
    /\ cnt \in 0..Cardinality(NeighborCells(cell))
    /\ ~anyInput => (~is_mine(cell) /\ cnt = nearby_mines(cell))
    /\ seen' = seen \cup {<<cell, cnt>>}
    /\ nobs' = nobs + 1
    /\ moves_made' = moves_made \cup {cell}
    /\ safes' = SafesAfterMark(safes, cell)
    /\ \E o \in Orders(1..Len(knowledge)) :
         knowledge' = Append(WithMove(Reduced(knowledge, o), cell),
                             Sentence(NeighborCells(cell), cnt))
    /\ move' = cell
    /\ count' = cnt
    /\ n' = -10000
    /\ idx' = 1
    /\ order' \in (IF DirectKind(cnt, NeighborCells(cell)) = "none"
                   THEN {<<>>} ELSE Orders(NeighborCells(cell)))
    /\ pc' = "direct"
    /\ op' = "none"
    /\ ret' = None
    /\ UNCHANGED <<env, twin, mines, new_knowledge, pos, todo, kind, pool0>>

\* lines 221-228: one iteration of the loop over neighbor_cells
Direct ==
    /\ pc = "direct"
    /\ idx <= Len(order)
    /\ IF DirectKind(count, NeighborCells(move)) = "safe"
       THEN /\ safes' = SafesAfterMark(safes, order[idx])
            /\ knowledge' = KnowledgeMarkSafe(knowledge, order[idx])
            /\ n' = 0
            /\ UNCHANGED mines
       ELSE /\ mines' = MinesAfterMark(mines, order[idx])
            /\ knowledge' = KnowledgeMarkMine(knowledge, order[idx])
            /\ n' = 1
            /\ UNCHANGED safes
    /\ idx' = idx + 1
    /\ UNCHANGED <<env, twin, seen, moves_made, pc, move, count, order,
                   new_knowledge, pos, todo, kind, pool0, nobs, op, ret>>

\* lines 230-238: the unit sentences of a direct conclusion are appended, in
\* the iteration order of neighbor_cells; the nested loops start
Singles ==
    /\ pc = "direct"
    /\ idx > Len(order)
    /\ LET k == IF n >= -10
                THEN knowledge \o [x \in 1..Len(order) |-> Sentence({order[x]}, n)]
                ELSE knowledge
       IN  /\ knowledge' = k
           /\ pool0' = k
    /\ new_knowledge' = <<>>
    /\ pos' = 1
    /\ pc' = "subset"
    /\ UNCHANGED <<env, twin, seen, moves_made, mines, safes, move, count,
                   order, idx, n, todo, kind, nobs, op, ret>>

\* lines 239-246: the loops run on to the next pair with sen.cells <
\* sentence.cells and append the inferred sentence to new_knowledge
Infer ==
    /\ pc = "subset"
    /\ todo = {}
    /\ NextInference(knowledge, pos) # 0
    /\ LET p == NextInference(knowledge, pos)
           s == Difference(knowledge[SenIndex(knowledge, p)],
                           knowledge[SentenceIndex(knowledge, p)])
       IN  /\ new_knowledge' = Append(new_knowledge, s)
           /\ kind' = InferredKind(s)
           /\ todo' = IF InferredKind(s) = "none" THEN {} ELSE s.cells
           /\ pos' = IF InferredKind(s) = "none" THEN p + 1 ELSE p
    /\ UNCHANGED <<env, twin, seen, kb, pc, move, count, order, idx, n, pool0,
                   nobs, op, ret>>

\* lines 248-253: one iteration of "for cell in new_set"
InferMark ==
    /\ pc = "subset"
    /\ todo # {}
    /\ \E cell \in todo :
         /\ IF kind = "safe"
            THEN /\ safes' = SafesAfterMark(safes, cell)
                 /\ knowledge' = KnowledgeMarkSafe(knowledge, cell)
                 /\ UNCHANGED mines
            ELSE /\ mines' = MinesAfterMark(mines, cell)
                 /\ knowledge' = KnowledgeMarkMine(knowledge, cell)
                 /\ UNCHANGED safes
         /\ todo' = Rest(todo, cell)
         /\ pos' = IF Rest(todo, cell) = {} THEN pos + 1 ELSE pos
    /\ UNCHANGED <<env, twin, seen, moves_made, pc, move, count, order, idx, n,
                   new_knowledge, kind, pool0, nobs, op, ret>>

\* lines 255-263: the loops are over; new_knowledge is appended.  The loop of
\* lines 257-263 changes nothing: set.union returns a new set, which is dropped.
Extend ==
    /\ pc = "subset"
    /\ todo = {}
    /\ NextInference(knowledge, pos) = 0
    /\ knowledge' = knowledge \o new_knowledge
    /\ pc' = "reduce"
    /\ UNCHANGED <<env, twin, seen, moves_made, mines, safes, move, count,
                   order, idx, n, new_knowledge, pos, todo, kind, pool0, nobs, op, ret>>

\* lines 265-279: one sentence is kept for each cell set
Reduce ==
    /\ pc = "reduce"
    /\ knowledge' = Reduced(knowledge, Ascending(FirstIndices(knowledge)))
    /\ pc' = "print"
    /\ UNCHANGED <<env, twin, seen, moves_made, mines, safes, move, count,
                   order, idx, n, new_knowledge, pos, todo, kind, pool0, nobs, op, ret>>

\* lines 281-282: the sentences are printed and add_knowledge returns
Return ==
    /\ pc = "print"
    /\ pc' = "idle"
    /\ move' = None
    /\ count' = 0
    /\ order' = <<>>
    /\ idx' = 0
    /\ n' = 0
    /\ new_knowledge' = <<>>
    /\ pos' = 0
    /\ kind' = "none"
    /\ pool0' = <<>>
    /\ UNCHANGED <<env, twin, seen, kb, todo, nobs, op, ret>>

----------------------------------------------------------------------------
\* move selection

\* make_safe_move, line 294, without "- self.moves_made"
SafeCandidates_All(ss, mm) == ss

\* make_safe_move, line 294
SafeCandidates(ss, mm) == ss \ mm

\* make_random_move, line 313, without "- self.mines"
RandomCandidates_IgnoreMines(all, ms, mm) == all \ mm

\* make_random_move, lines 309-313
RandomCandidates(all, ms, mm) == (all \ ms) \ mm

\* make_safe_move that records the move it returns
make_safe_move_Recording ==
    /\ pc = "idle"
    /\ op' = "safe_move"
    /\ IF SafeCandidates(safes, moves_made) # {}
       THEN /\ ret' \in SafeCandidates(safes, moves_made)
            /\ moves_made' = moves_made \cup {ret'}
       ELSE /\ ret' = None
            /\ UNCHANGED moves_made
    /\ UNCHANGED <<env, twin, seen, mines, safes, knowledge, pc, locals, nobs>>

\* MinesweeperAI.make_safe_move
make_safe_move ==
    /\ pc = "idle"
    /\ op' = "safe_move"
    /\ IF SafeCandidates(safes, moves_made) # {}
       THEN ret' \in SafeCandidates(safes, moves_made)
       ELSE ret' = None
    /\ UNCHANGED <<env, twin, seen, kb, pc, locals, nobs>>

\* MinesweeperAI.make_random_move
make_random_move ==
    /\ pc = "idle"
    /\ op' = "random_move"
    /\ IF RandomCandidates(Cells, mines, moves_made) # {}
       THEN ret' \in RandomCandidates(Cells, mines, moves_made)
       ELSE ret' = None
    /\ UNCHANGED <<env, twin, seen, kb, pc, locals, nobs>>

----------------------------------------------------------------------------
\* specifications

\* MinesweeperAI.__init__ and Minesweeper.__init__
InitKB ==
    /\ seen = {}
    /\ moves_made = {}
    /\ mines = {}
    /\ safes = {}
    /\ knowledge = <<>>
    /\ pc = "idle"
    /\ move = None
    /\ count = 0
    /\ order = <<>>
    /\ idx = 0
    /\ n = 0
    /\ new_knowledge = <<>>
    /\ pos = 0
    /\ todo = {}
    /\ kind = "none"
    /\ pool0 = <<>>
    /\ nobs = 0
    /\ op = "none"
    /\ ret = None
    /\ snap = <<>>
    /\ first = <<>>

\* MinesweeperAI.__init__(height, width): the grids of the model
SmallGrid ==
    /\ height \in 1..MaxCells
    /\ width \in 1..MaxCells
    /\ height * width <= MaxCells

\* the caller reports what the board shows (the game loop)
Init ==
    /\ InitKB
    /\ SmallGrid
    /\ anyInput = FALSE
    /\ board \in SUBSET AllCells(height, width)

\* the caller passes any in-bounds cell and any count a cell can have
InitAny ==
    /\ InitKB
    /\ SmallGrid
    /\ anyInput = TRUE
    /\ board = {}

\* MinesweeperAI.add_knowledge is called
add_knowledge ==
    \E cell \in Cells :
        \E cnt \in 0..Cardinality(NeighborCells(cell)) : Observe(cell, cnt)

Step == Direct \/ Singles \/ Infer \/ InferMark \/ Extend \/ Reduce \/ Return

Next ==
    \/ add_knowledge
    \/ Direct
    \/ Singles
    \/ Infer
    \/ InferMark
    \/ Extend
    \/ Reduce
    \/ Return
    \/ make_safe_move
    \/ make_random_move

Spec == Init /\ [][Next]_vars

SpecAny == InitAny /\ [][Next]_vars /\ WF_vars(Step)

----------------------------------------------------------------------------
\* class Sentence on its own: the methods are called on one sentence, which
\* is knowledge[1]; pc = "sentence" says that no MinesweeperAI is at work

\* Sentence.mark_mine(cell) is called
Sentence_mark_mine(cell) ==
    /\ pc = "sentence"
    /\ knowledge' = <<SentenceMarkMine(knowledge[1], cell)>>
    /\ op' = "mark_mine"
    /\ ret' = cell
    /\ UNCHANGED <<env, twin, seen, moves_made, mines, safes, pc, locals, nobs>>

\* Sentence.mark_safe(cell) is called
Sentence_mark_safe(cell) ==
    /\ pc = "sentence"
    /\ knowledge' = <<SentenceMarkSafe(knowledge[1], cell)>>
    /\ op' = "mark_safe"
    /\ ret' = cell
    /\ UNCHANGED <<env, twin, seen, moves_made, mines, safes, pc, locals, nobs>>

\* Sentence.known_mines() is called
Sentence_known_mines ==
    /\ pc = "sentence"
    /\ op' = "known_mines"
    /\ ret' = known_mines(knowledge[1])
    /\ UNCHANGED <<env, twin, seen, kb, pc, locals, nobs>>

\* Sentence.known_safes() is called
Sentence_known_safes ==
    /\ pc = "sentence"
    /\ op' = "known_safes"
    /\ ret' = known_safes(knowledge[1])
    /\ UNCHANGED <<env, twin, seen, kb, pc, locals, nobs>>

\* Sentence.__init__(cells, count), for every set of cells of a grid and
\* every count from 0 to the number of cells
InitSentence ==
    /\ SmallGrid
    /\ anyInput = TRUE
    /\ board = {}
    /\ seen = {}
    /\ moves_made = {}
    /\ mines = {}
    /\ safes = {}
    /\ \E cells \in SUBSET AllCells(height, width) :
         \E cnt \in 0..Cardinality(cells) : knowledge = <<Sentence(cells, cnt)>>
    /\ pc = "sentence"
    /\ move = None
    /\ count = 0
    /\ order = <<>>
    /\ idx = 0
    /\ n = 0
    /\ new_knowledge = <<>>
    /\ pos = 0
    /\ todo = {}
    /\ kind = "none"
    /\ pool0 = <<>>
    /\ nobs = 0
    /\ op = "none"
    /\ ret = None
    /\ snap = <<>>
    /\ first = <<>>

NextSentence ==
    \/ \E cell \in Cells : Sentence_mark_mine(cell)
    \/ \E cell \in Cells : Sentence_mark_safe(cell)
    \/ Sentence_known_mines
    \/ Sentence_known_safes

SpecSentence == InitSentence /\ [][NextSentence]_vars

----------------------------------------------------------------------------
\* two runs of add_knowledge on the same knowledge base.  The first run is
\* made, its result is kept in `first`, the knowledge base is put back as it
\* was before the call (`snap`), and the same call is made again; the list
\* order (Observe) and the iteration orders of the sets are drawn anew.

\* the place of a cell in the grid, row by row
CellIndex(cell) == cell[1] * width + cell[2]

\* an order of the cell sets: a comes before b if the first cell of the grid
\* that is in one of them only is in a
Before(a, b) ==
    /\ a # b
    /\ LET d == (a \ b) \cup (b \ a)
       IN  (CHOOSE c \in d : \A c2 \in d : CellIndex(c) <= CellIndex(c2)) \in a

\* the sentences of S, which differ in their cell sets, as a list
Listed(S) ==
    [x \in 1..Cardinality(S) |->
        CHOOSE e \in S :
            Cardinality({y \in S : Before(y.cells, e.cells)}) = x - 1]

\* the fields of MinesweeperAI, the knowledge as the set of its sentences,
\* and the calls made so far
Saved ==
    [moves_made |-> moves_made, mines |-> mines, safes |-> safes,
     sentences |-> {knowledge[x] : x \in 1..Len(knowledge)},
     seen |-> seen, nobs |-> nobs]

\* the knowledge base is kept before a call that is to be made twice
Save ==
    /\ pc = "idle"
    /\ nobs < CallLimit
    /\ snap = <<>> \/ (first # <<>> /\ nobs > snap[1].nobs)
    /\ snap' = <<Saved>>
    /\ first' = <<>>
    /\ UNCHANGED <<env, seen, kb, pc, locals, nobs, op, ret>>

\* add_knowledge is called on the knowledge base that was kept
ObserveFirst ==
    /\ snap # <<>>
    /\ first = <<>>
    /\ add_knowledge

\* the first run is over: its result is kept and the knowledge base is put
\* back as it was before the call, its sentences in the order of Listed (the
\* next call draws the order of the list anyway)
Rewind ==
    /\ pc = "print"
    /\ snap # <<>>
    /\ first = <<>>
    /\ first' = <<[move |-> move, count |-> count,
                   mines |-> mines, safes |-> safes]>>
    /\ moves_made' = snap[1].moves_made
    /\ mines' = snap[1].mines
    /\ safes' = snap[1].safes
    /\ knowledge' = Listed(snap[1].sentences)
    /\ seen' = snap[1].seen
    /\ nobs' = snap[1].nobs
    /\ pc' = "idle"
    /\ move' = None
    /\ count' = 0
    /\ order' = <<>>
    /\ idx' = 0
    /\ n' = 0
    /\ new_knowledge' = <<>>
    /\ pos' = 0
    /\ kind' = "none"
    /\ pool0' = <<>>
    /\ UNCHANGED <<env, snap, todo, op, ret>>

\* add_knowledge is called again, with the cell and count of the first run
ObserveAgain ==
    /\ first # <<>>
    /\ nobs = snap[1].nobs
    /\ Observe(first[1].move, first[1].count)

\* the second run returns
ReturnSecond ==
    /\ first # <<>>
    /\ Return

NextPool ==
    \/ Save
    \/ ObserveFirst
    \/ Rewind
    \/ ObserveAgain
    \/ Direct
    \/ Singles
    \/ Infer
    \/ InferMark
    \/ Extend
    \/ Reduce
    \/ ReturnSecond

SpecPool == Init /\ [][NextPool]_vars

----------------------------------------------------------------------------
\* the same observations recorded in two orders.  A fresh MinesweeperAI
\* records observations that differ from each other; its result is kept in
\* `first`; a second fresh MinesweeperAI on the same grid records the same
\* observations in any order.

\* add_knowledge is called with an observation not recorded before
ObserveNew ==
    /\ first = <<>>
    /\ \E cell \in Cells :
         \E cnt \in 0..Cardinality(NeighborCells(cell)) :
             /\ <<cell, cnt>> \notin seen
             /\ Observe(cell, cnt)

\* MinesweeperAI.__init__ for the second knowledge base; what the first one
\* recorded and concluded is kept
Restart ==
    /\ pc = "idle"
    /\ first = <<>>
    /\ nobs >= 2
    /\ first' = <<[seen |-> seen, mines |-> mines, safes |-> safes]>>
    /\ seen' = {}
    /\ moves_made' = {}
    /\ mines' = {}
    /\ safes' = {}
    /\ knowledge' = <<>>
    /\ nobs' = 0
    /\ op' = "none"
    /\ ret' = None
    /\ UNCHANGED <<env, snap, pc, locals>>

\* add_knowledge is called on the second knowledge base, with an observation
\* of the first one that the second has not recorded yet
ObserveRest ==
    /\ first # <<>>
    /\ \E o \in first[1].seen \ seen : Observe(o[1], o[2])

NextPerm ==
    \/ ObserveNew
    \/ Restart
    \/ ObserveRest
    \/ Direct
    \/ Singles
    \/ Infer
    \/ InferMark
    \/ Extend
    \/ Reduce
    \/ Return

SpecPerm == Init /\ [][NextPerm]_vars

----------------------------------------------------------------------------
\* properties

\* the observations recorded so far are what a board with mine layout b shows
TruthfulFor(b) ==
    \A o \in seen :
        /\ o[1] \notin b
        /\ o[2] = Cardinality(NeighborCells(o[1]) \cap b)

\* sen.cells is a strict subset of sentence.cells
StrictSubset(sen, sentence) ==
    sen.cells \subseteq sentence.cells /\ sen.cells # sentence.cells

\* C1: with truthful observations, every cell of mines is a mine of the
\* layout and no cell of safes is one, in every state.
C1_Soundness == mines \subseteq board /\ safes \cap board = {}

\* C1: a call has returned with a mine and a safe cell that were inferred
C1_Witness ==
    /\ pc = "idle"
    /\ mines # {}
    /\ safes \ moves_made # {}

\* C2 as stated: mines and safes are disjoint whatever cells and counts
\* add_knowledge is called with.
C2_Disjoint == mines \cap safes = {}

\* C2, amended: mines and safes are disjoint as long as some mine layout
\* shows every observation recorded so far.
C2_DisjointWhenTruthful ==
    (\E b \in SUBSET Cells : TruthfulFor(b)) => mines \cap safes = {}

\* C2: two calls that some layout shows have returned, with mines and safes
\* both inferred
C2_Witness ==
    /\ pc = "idle"
    /\ nobs = 2
    /\ \E b \in SUBSET Cells : TruthfulFor(b)
    /\ mines # {}
    /\ safes \ moves_made # {}

\* C3: with truthful observations, every sentence of the knowledge has
\* 0 <= count <= |cells|, in every state, also between two marks of a call.
C3_WellFormed ==
    \A x \in 1..Len(knowledge) :
        /\ 0 <= knowledge[x].count
        /\ knowledge[x].count <= Cardinality(knowledge[x].cells)

\* C3: in the middle of the nested loops, mark_mine has just shrunk the
\* sentences and one of them is all mines
C3_Witness ==
    /\ pc = "subset"
    /\ kind = "mine"
    /\ mines # {}
    /\ \E x \in 1..Len(knowledge) :
         /\ knowledge[x].count >= 1
         /\ knowledge[x].count = Cardinality(knowledge[x].cells)
         /\ knowledge[x] # pool0[x]

\* C4: no step of add_knowledge removes a cell from moves_made, mines or
\* safes, so each of them after a call contains what it held before.
C4_Monotone ==
    [][/\ moves_made \subseteq moves_made'
       /\ mines \subseteq mines'
       /\ safes \subseteq safes']_vars

\* C4: a second call has returned and the three sets are non-empty
C4_Witness ==
    /\ pc = "idle"
    /\ nobs = 2
    /\ Cardinality(moves_made) = 2
    /\ mines # {}
    /\ Cardinality(safes) >= 3

\* C5: every call of add_knowledge returns.
C5_Terminates == (pc # "idle") ~> (pc = "idle")

\* C5: a second call has returned, on counts that contradict each other
C5_Witness ==
    /\ pc = "idle"
    /\ nobs = 2
    /\ mines \cap safes # {}

C7_SubsetConclusions ==
    pc = "print" =>
        \A a \in 1..Len(pool0), b \in 1..Len(pool0) :
            StrictSubset(pool0[a], pool0[b]) =>
                LET d == pool0[b].cells \ pool0[a].cells
                    c == pool0[b].count - pool0[a].count
                IN  /\ (c = 0 => d \subseteq safes)
                    /\ (c = Cardinality(d) => d \subseteq mines)

\* C8: make_safe_move returns a cell of safes that is not in moves_made if
\* there is one, and None exactly if there is none.
C8_SafeMove ==
    op = "safe_move" =>
        IF safes \ moves_made # {}
        THEN ret \in safes /\ ret \notin moves_made
        ELSE ret = None

\* C8: make_safe_move returned a cell while other safe cells were moves made
C8_Witness ==
    /\ op = "safe_move"
    /\ ret # None
    /\ safes \cap moves_made # {}

\* C9: make_random_move returns a cell of the grid that is neither in mines
\* nor in moves_made if there is one, and None exactly if there is none.
C9_RandomMove ==
    op = "random_move" =>
        IF \E c \in Cells : c \notin mines /\ c \notin moves_made
        THEN ret \in Cells /\ ret \notin mines /\ ret \notin moves_made
        ELSE ret = None

\* C9: make_random_move returned a cell while a mine was known
C9_Witness ==
    /\ op = "random_move"
    /\ ret # None
    /\ mines # {}

\* C10: a call of make_safe_move or make_random_move (the only steps from
\* between two calls to between two calls) leaves moves_made, mines, safes
\* and the knowledge as they are.
C10_ReadOnly ==
    [][(pc = "idle" /\ pc' = "idle") =>
          /\ moves_made' = moves_made
          /\ mines' = mines
          /\ safes' = safes
          /\ knowledge' = knowledge]_vars

\* C10: make_safe_move returned None on a knowledge base that holds sentences
C10_Witness ==
    /\ op = "safe_move"
    /\ ret = None
    /\ knowledge # <<>>

\* C11: when add_knowledge returns, every sentence of the knowledge with
\* count = 0 has all its cells in safes, and every sentence with cells and
\* count = |cells| has all its cells in mines, also a sentence that marks
\* shrank to that during the call.
C11_DirectFixedPoint ==
    pc = "print" =>
        \A x \in 1..Len(knowledge) :
            /\ (knowledge[x].count = 0 => knowledge[x].cells \subseteq safes)
            /\ ((knowledge[x].cells # {}
                    /\ knowledge[x].count = Cardinality(knowledge[x].cells))
                  => knowledge[x].cells \subseteq mines)

\* C12: when add_knowledge returns, for every two sentences A, B of the
\* knowledge with A.cells a strict subset of B.cells, the knowledge holds the
\* sentence B.cells - A.cells = B.count - A.count.
C12_SubsetFixedPoint ==
    pc = "print" =>
        \A a \in 1..Len(knowledge), b \in 1..Len(knowledge) :
            StrictSubset(knowledge[a], knowledge[b]) =>
                \E x \in 1..Len(knowledge) :
                    SentenceEq(knowledge[x],
                               Difference(knowledge[a], knowledge[b]))

\* the cells already in moves_made, mines or safes
Resolved == moves_made \cup mines \cup safes

\* the in-bounds cells of the 3x3 block around cell, without cell
Around(cell) ==
    {c \in Cells : /\ c # cell
                   /\ c[1] - cell[1] \in -1..1
                   /\ c[2] - cell[2] \in -1..1}

\* C14 as stated: the sentence add_knowledge(cell, count) appends for the
\* observation has the in-bounds neighbours of cell that are not in
\* moves_made, mines or safes as its cells, and count less the neighbours in
\* mines as its count.
C14_ExcludesResolved ==
    (pc = "direct" /\ idx = 1) =>
        /\ knowledge[Len(knowledge)].cells = Around(move) \ Resolved
        /\ knowledge[Len(knowledge)].count =
               count - Cardinality(Around(move) \cap mines)

\* C14, amended: the sentence add_knowledge(cell, count) appends for the
\* observation has all the in-bounds neighbours of cell as its cells, and
\* count as its count.
C14_WholeNeighbourhood ==
    (pc = "direct" /\ idx = 1) =>
        /\ knowledge[Len(knowledge)].cells = Around(move)
        /\ knowledge[Len(knowledge)].count = count

\* C14: the sentence just appended holds a known mine and a cell observed
\* before
C14_Witness ==
    /\ pc = "direct"
    /\ idx = 1
    /\ knowledge[Len(knowledge)].cells \cap mines # {}
    /\ knowledge[Len(knowledge)].cells \cap moves_made # {}

\* two sentences of list k have the same cells and different counts
Contradictory(k) ==
    \E x \in 1..Len(k), y \in 1..Len(k) :
        k[x].cells = k[y].cells /\ k[x].count # k[y].count

\* C15: when lines 265-279 find two sentences with the same cells and
\* different counts, add_knowledge does not go on to return normally.
C15_ContradictionSurfaced ==
    [][(pc = "reduce" /\ Contradictory(knowledge)) => pc' # "print"]_vars

\* the cell sets of the sentences of list k
CellSets(k) == {k[x].cells : x \in 1..Len(k)}

\* no two sentences of list k have the same cells
NoDuplicates(k) ==
    \A x \in 1..Len(k), y \in 1..Len(k) : k[x].cells = k[y].cells => x = y

\* C16: lines 265-279 leave a list in which no two sentences have the same
\* cells, and whose cell sets are the cell sets of the list they found.
C16_OnePerCellSet ==
    [][pc = "reduce" =>
          /\ NoDuplicates(knowledge')
          /\ CellSets(knowledge') = CellSets(knowledge)]_vars

\* C16: add_knowledge is returning after lines 265-279 dropped a sentence of
\* more than one cell
C16_Witness ==
    /\ pc = "print"
    /\ Len(knowledge) < Len(pool0) + Len(new_knowledge)
    /\ \E x \in 1..Len(new_knowledge) :
         /\ Cardinality(new_knowledge[x].cells) > 1
         /\ \A y \in 1..Len(knowledge) : knowledge[y] # new_knowledge[x]

\* C17 as stated: when add_knowledge returns, no sentence of the knowledge
\* has an empty cell set, on every grid.
C17_NoEmpty ==
    pc = "print" => \A x \in 1..Len(knowledge) : knowledge[x].cells # {}

\* C17, amended: on a grid of more than one cell, when add_knowledge
\* returns, no sentence of the knowledge has an empty cell set.
C17_NoEmptyBeyond1x1 ==
    (pc = "print" /\ height * width > 1) =>
        \A x \in 1..Len(knowledge) : knowledge[x].cells # {}

\* C17: add_knowledge is returning from a second call on a grid of more than
\* one cell, with sentences of one cell for a cell observed and for a mine
C17_Witness ==
    /\ pc = "print"
    /\ height * width > 1
    /\ nobs = 2
    /\ \E x \in 1..Len(knowledge), y \in 1..Len(knowledge) :
         /\ knowledge[x] = Sentence({move}, 0)
         /\ Cardinality(knowledge[y].cells) = 1
         /\ knowledge[y].cells \subseteq mines

\* C18 as stated: Sentence.mark_mine(cell) on a sentence that holds cell
\* removes cell and lowers the count by 1, also when cell is its only cell,
\* and leaves a sentence that does not hold cell as it is.
C18_MarkMineRemoves ==
    [][op' = "mark_mine" =>
          IF ret' \in knowledge[1].cells
          THEN knowledge'[1] = Sentence(knowledge[1].cells \ {ret'},
                                        knowledge[1].count - 1)
          ELSE knowledge'[1] = knowledge[1]]_vars

\* C18, amended: Sentence.mark_mine(cell) on a sentence that holds cell and
\* another cell removes cell and lowers the count by 1; on a sentence whose
\* only cell is cell it keeps the cell and sets the count to 1; it leaves a
\* sentence that does not hold cell as it is.
C18_MarkMineKeepsUnit ==
    [][op' = "mark_mine" =>
          IF knowledge[1].cells = {ret'}
          THEN knowledge'[1] = Sentence({ret'}, 1)
          ELSE IF ret' \in knowledge[1].cells
               THEN knowledge'[1] = Sentence(knowledge[1].cells \ {ret'},
                                             knowledge[1].count - 1)
               ELSE knowledge'[1] = knowledge[1]]_vars

\* C18: mark_mine(cell) has returned and the sentence still holds cell, as
\* its only cell
C18_Witness ==
    /\ pc = "sentence"
    /\ op = "mark_mine"
    /\ knowledge[1] = Sentence({ret}, 1)

\* C19: Sentence.known_mines() returns the cells of the sentence if
\* count = |cells| and no cell otherwise; Sentence.known_safes() returns the
\* cells if count = 0 and no cell otherwise.
C19_ConservativeQueries ==
    /\ op = "known_mines" =>
         ret = IF knowledge[1].count = Cardinality(knowledge[1].cells)
               THEN knowledge[1].cells ELSE {}
    /\ op = "known_safes" =>
         ret = IF knowledge[1].count = 0 THEN knowledge[1].cells ELSE {}

\* C13: two runs of add_knowledge on the same knowledge base (the same
\* moves_made, mines, safes and sentences) with the same cell and count end
\* with the same mines and the same safes, whatever the order of the list
\* and the iteration orders of the sets.
C13_PoolOrderIndependent ==
    (pc = "print" /\ first # <<>>) =>
        /\ mines = first[1].mines
        /\ safes = first[1].safes

\* C20: two knowledge bases that recorded the same truthful observations of
\* one layout, in any two orders, hold the same mines and the same safes.
C20_ObservationOrderIndependent ==
    (pc = "idle" /\ first # <<>> /\ seen = first[1].seen) =>
        /\ mines = first[1].mines
        /\ safes = first[1].safes

====
